---------------------------- MODULE Spec2Model ----------------------------
(***************************************************************************)
(* Model of sys/hardenedbsd/hbsd_pax_common.c: the PaX flag control plane. *)
(*                                                                         *)
(* Kernel configuration modelled: PAX_CONTROL_ACL, PAX_CONTROL_EXTATTR,    *)
(* PAX_CONTROL_ACL_OVERRIDE_SUPPORT, PAX_ASLR, MAP_32BIT, PAX_NOEXEC,      *)
(* PAX_SEGVGUARD, PAX_HARDENING, PAX_JAIL_SUPPORT and HBSD_DEBUG are all   *)
(* defined, and so is INVARIANTS (KASSERT is checked).  COMPAT_FREEBSD32   *)
(* is modelled both ways.  One process (imgp->proc) with NumThreads        *)
(* threads.                                                                *)
(*                                                                         *)
(* sys/pax.h is not part of the sources at hand, so the bit layout of      *)
(* pax_flag_t is a scaled-down one with the same shape as the kernel's:    *)
(* paired enable/disable bits (disable = enable << 1), one bit that is in  *)
(* no PAX_NOTE_* constant, and the prefer-ACL marker in the top bit.       *)
(***************************************************************************)
EXTENDS Integers, Sequences, FiniteSets, TLC

(***************************************************************************)
(* Bounds of the model.                                                    *)
(***************************************************************************)
NumThreads == 2

Threads == 1..NumThreads

(***************************************************************************)
(* pax_flag_t and the PAX_NOTE_* constants (scaled layout).                *)
(***************************************************************************)
FlagBits == 6

FlagMax == 2^FlagBits - 1

Masks == 0..FlagMax

PAX_NOTE_PAGEEXEC == 1

PAX_NOTE_NOPAGEEXEC == 2

PAX_NOTE_ASLR == 4

PAX_NOTE_NOASLR == 8

PAX_NOTE_UNKNOWN == 16

PAX_NOTE_PREFER_ACL == 32

ENOEXEC == 8

(* Bitwise operators of C on pax_flag_t, computed bit by bit. *)
RECURSIVE AndBits(_, _, _)
AndBits(a, b, n) ==
    IF n = 0 THEN 0
    ELSE (a % 2) * (b % 2) + 2 * AndBits(a \div 2, b \div 2, n - 1)

RECURSIVE OrBits(_, _, _)
OrBits(a, b, n) ==
    IF n = 0 THEN 0
    ELSE (IF (a % 2) + (b % 2) > 0 THEN 1 ELSE 0)
         + 2 * OrBits(a \div 2, b \div 2, n - 1)

(* The two operators tabulated once over pax_flag_t. *)
AndTable == [a \in Masks |-> [b \in Masks |-> AndBits(a, b, FlagBits)]]

OrTable == [a \in Masks |-> [b \in Masks |-> OrBits(a, b, FlagBits)]]

BitAnd(a, b) == AndTable[a][b]

BitOr(a, b) == OrTable[a][b]

BitNot(a) == FlagMax - a

ShiftRight1(a) == a \div 2

ShiftLeft1(a) == (2 * a) % (2^FlagBits)

PAX_NOTE_ALL_ENABLED == BitOr(PAX_NOTE_PAGEEXEC, PAX_NOTE_ASLR)

PAX_NOTE_ALL_DISABLED == BitOr(PAX_NOTE_NOPAGEEXEC, PAX_NOTE_NOASLR)

PAX_NOTE_ALL ==
    BitOr(BitOr(PAX_NOTE_ALL_ENABLED, PAX_NOTE_ALL_DISABLED), PAX_NOTE_PREFER_ACL)

(***************************************************************************)
(* State.                                                                  *)
(***************************************************************************)
VARIABLES
    p_pax,      \* struct proc: p->p_pax
    td_pax,     \* struct thread: td->td_pax, one per thread of the process
    imgp,       \* the image-load record of the activation in progress
    phase,      \* position of the image activation: idle, imgact, returned
    elf,        \* what the last pax_elf call did: return value, logs, calls
    resolved,   \* what pax_get_requested_flags returned for imgp (-1: not called)
    p_mtx,      \* owner of the process lock (PROC_LOCK), 0 when it is free
    tpc,        \* per thread: its position in pax_set_flags
    tl,         \* per thread: its locals in pax_set_flags (flags, td0)
    rd,         \* per thread: what its last pax_get_flags(_td) call saw
    old_pax,    \* history: p_pax when the lock holder took the lock
    feat,       \* Feature State calls: inputs, *state / *status, return value
    prison,     \* pax_init_prison calls: inputs, initializers called, result
    vres        \* Flag Validator calls: the mask passed, the mask after, result

vars == <<p_pax, td_pax, imgp, phase, elf, resolved, p_mtx, tpc, tl, rd,
          old_pax, feat, prison, vres>>

storevars == <<p_mtx, tpc, tl, rd, old_pax>>

NoImgp == [req_acl_flags |-> 0, req_extattr_flags |-> 0, valid |-> FALSE]

NoRead == [fn |-> "none", val |-> 0, assert_ok |-> TRUE, racing |-> FALSE]

NoFeat == [op |-> "none", state_in |-> 0, state |-> 0, status_in |-> 0,
           status |-> 0, error |-> 0, value |-> 0, vret |-> TRUE, ret |-> 0]

NoVal == [op |-> "none", mode_in |-> 0, mode |-> 0, ret |-> 0]

NoPrison == [op |-> "none", is_root |-> FALSE, compat32 |-> FALSE,
             res |-> <<0, 0, 0, 0, 0, 0>>, calls |-> << >>, ret |-> TRUE,
             assert_ok |-> TRUE, returned |-> FALSE]

NoElf == [ret |-> 0, td |-> 0, committed |-> FALSE, mode |-> 0, flags |-> 0,
          klog |-> <<>>, ulog |-> <<>>, calls |-> <<>>]

(***************************************************************************)
(* Flag Validator.                                                         *)
(***************************************************************************)
(* Mutant: the complement of PAX_NOTE_ALL dropped from the test. *)
pax_validate_flags_NoComplement(flags) ==
    IF BitAnd(flags, PAX_NOTE_ALL) # 0 THEN 1 ELSE 0

pax_validate_flags(flags) ==
    IF BitAnd(flags, BitNot(PAX_NOTE_ALL)) # 0 THEN 1 ELSE 0

(* Mutant: the disable bits shifted the wrong way. *)
pax_check_conflicting_modes_ShiftLeft(mode) ==
    IF BitAnd(BitAnd(mode, PAX_NOTE_ALL_ENABLED),
              ShiftLeft1(BitAnd(mode, PAX_NOTE_ALL_DISABLED))) # 0
    THEN 1 ELSE 0

(* Mutant: the PAX_NOTE_ALL_ENABLED and PAX_NOTE_ALL_DISABLED masks left out. *)
pax_check_conflicting_modes_Unmasked(mode) ==
    IF BitAnd(mode, ShiftRight1(mode)) # 0 THEN 1 ELSE 0

pax_check_conflicting_modes(mode) ==
    IF BitAnd(BitAnd(mode, PAX_NOTE_ALL_ENABLED),
              ShiftRight1(BitAnd(mode, PAX_NOTE_ALL_DISABLED))) # 0
    THEN 1 ELSE 0

(***************************************************************************)
(* Request Resolver.                                                       *)
(***************************************************************************)
(* Mutant: the fallback to the ACL value left out. *)
pax_get_requested_flags_NoFallback(img) ==
    IF BitAnd(img.req_acl_flags, PAX_NOTE_PREFER_ACL) # 0
    THEN img.req_acl_flags
    ELSE img.req_extattr_flags

pax_get_requested_flags(img) ==
    LET req_flags == IF BitAnd(img.req_acl_flags, PAX_NOTE_PREFER_ACL) # 0
                     THEN img.req_acl_flags
                     ELSE img.req_extattr_flags
    IN  IF req_flags = 0 /\ img.req_acl_flags # 0
        THEN img.req_acl_flags
        ELSE req_flags


(***************************************************************************)
(* Flag Storage.                                                           *)
(***************************************************************************)
(* pax_get_flags: *flags = p->p_pax, read without the process lock. *)
pax_get_flags == p_pax

(* pax_get_flags_td: *flags = td->td_pax, read without the process lock. *)
pax_get_flags_td(td) == td_pax[td]

(* The HBSD_DEBUG loop of pax_get_flags and pax_get_flags_td: the KASSERT *)
(* td->td_pax == p->p_pax evaluated for every thread of the process.       *)
DebugAssertHolds == \A td0 \in Threads : td_pax[td0] = p_pax

(* Mutant: the new flags merged into the thread's copy instead of replacing it. *)
pax_set_flags_td_Merge(tds, td, flags) == [tds EXCEPT ![td] = BitOr(@, flags)]

pax_set_flags_td(tds, td, flags) == [tds EXCEPT ![td] = flags]

(* FOREACH_THREAD_IN_PROC(p, td0) pax_set_flags_td(td0, flags), threads 1..n *)
RECURSIVE SetAllThreads(_, _, _)
SetAllThreads(tds, n, flags) ==
    IF n = 0 THEN tds
    ELSE pax_set_flags_td(SetAllThreads(tds, n - 1, flags), n, flags)

(* Mutant: "p->p_pax |= flags" written for "p->p_pax = flags". *)
pax_set_flags_Merge(tds, flags) ==
    [p_pax |-> BitOr(p_pax, flags), td_pax |-> SetAllThreads(tds, NumThreads, flags)]

(* pax_set_flags run from PROC_LOCK to PROC_UNLOCK with nothing interleaved: *)
(* the storage it leaves.                                                     *)
pax_set_flags(tds, flags) ==
    [p_pax |-> flags, td_pax |-> SetAllThreads(tds, NumThreads, flags)]

(***************************************************************************)
(* Mitigation engine hooks.  The engines live outside this file; a hook    *)
(* result is an input.  hr is the tuple of the five results in the order   *)
(* pax_elf calls the hooks.                                                *)
(***************************************************************************)
HookNames ==
    << "pax_aslr_setup_flags", "pax_disallow_map32bit_setup_flags",
       "pax_noexec_setup_flags", "pax_segvguard_setup_flags",
       "pax_hardening_setup_flags" >>

NumHooks == Len(HookNames)

(* The results each hook is let to return: bits of its own mitigation, and *)
(* for some hooks a bit that is not theirs (a defective engine): the       *)
(* unknown bit, the prefer-ACL marker, another engine's enable bit.        *)
HookResults ==
    << {0, PAX_NOTE_ASLR, PAX_NOTE_NOASLR},
       {0, PAX_NOTE_UNKNOWN},
       {0, PAX_NOTE_PAGEEXEC, PAX_NOTE_NOPAGEEXEC},
       {0, PAX_NOTE_PREFER_ACL},
       {0, PAX_NOTE_ASLR} >>

HookTuples ==
    { <<a, b, c, d, e>> : a \in HookResults[1], b \in HookResults[2],
                          c \in HookResults[3], d \in HookResults[4],
                          e \in HookResults[5] }

(* flags = 0; flags |= hook_1(...); ... ; flags |= hook_n(...) *)
RECURSIVE AccumulateHooks(_, _)
AccumulateHooks(hr, n) ==
    IF n = 0 THEN 0 ELSE BitOr(AccumulateHooks(hr, n - 1), hr[n])

HookCalls(hr, mode) ==
    [i \in 1..NumHooks |-> [fn |-> HookNames[i], arg |-> mode, res |-> hr[i]]]

(***************************************************************************)
(* Mitigation Aggregator: pax_elf.                                         *)
(***************************************************************************)
Call(fn, arg, res) == [fn |-> fn, arg |-> arg, res |-> res]

LogLine(line, arg) == [line |-> line, arg |-> arg]

(* Mutant: the short-circuit never taken. *)
AclOverridePinned_Never(flags) == FALSE

(* The PAX_CONTROL_ACL_OVERRIDE_SUPPORT test at the head of pax_elf. *)
AclOverridePinned(flags) ==
    BitAnd(flags, PAX_NOTE_PREFER_ACL) = PAX_NOTE_PREFER_ACL

(* Mutant: the else branch that clears the marker left out. *)
ReapplyPreferAcl_NoClear(mode, flags) ==
    IF BitAnd(mode, PAX_NOTE_PREFER_ACL) = PAX_NOTE_PREFER_ACL
    THEN BitOr(flags, PAX_NOTE_PREFER_ACL)
    ELSE flags

(* The PAX_CONTROL_ACL_OVERRIDE_SUPPORT block before the commit. *)
ReapplyPreferAcl(mode, flags) ==
    IF BitAnd(mode, PAX_NOTE_PREFER_ACL) = PAX_NOTE_PREFER_ACL
    THEN BitOr(flags, PAX_NOTE_PREFER_ACL)
    ELSE BitAnd(flags, BitNot(PAX_NOTE_PREFER_ACL))

(* Mutant: pax_set_flags already called when the rejection is decided. *)
Reject_AfterSetFlags(line, arg, mode, flags, calls) ==
    [ret |-> ENOEXEC, committed |-> TRUE, mode |-> mode, flags |-> flags,
     klog |-> << LogLine(line, arg) >>, ulog |-> << LogLine(line, arg) >>,
     calls |-> calls \o << Call("pax_log_internal_imgp", arg, 0),
                           Call("pax_ulog_internal", arg, 0) >>]

(* Mutant: the pax_ulog_internal call left out. *)
Reject_NoUserLog(line, arg, mode, flags, calls) ==
    [ret |-> ENOEXEC, committed |-> FALSE, mode |-> mode, flags |-> flags,
     klog |-> << LogLine(line, arg) >>, ulog |-> << >>,
     calls |-> calls \o << Call("pax_log_internal_imgp", arg, 0) >>]

(* A rejection: one kernel log line, one user log line, return ENOEXEC. *)
Reject(line, arg, mode, flags, calls) ==
    [ret |-> ENOEXEC, committed |-> FALSE, mode |-> mode, flags |-> flags,
     klog |-> << LogLine(line, arg) >>, ulog |-> << LogLine(line, arg) >>,
     calls |-> calls \o << Call("pax_log_internal_imgp", arg, 0),
                           Call("pax_ulog_internal", arg, 0) >>]

(* Mutant: the test "mode != 0" left out. *)
NonDefaultLog_Always(mode) ==
    << LogLine("the process started with non-default hardening settings", 0) >>

(* The informational line after the commit. *)
NonDefaultLog(mode) ==
    IF mode # 0
    THEN << LogLine("the process started with non-default hardening settings", 0) >>
    ELSE << >>

(* Mutant: the second pax_check_conflicting_modes left out. *)
PaxElfCommit_NoRecheck(mode, flags, calls) ==
    LET c1 == calls \o << Call("pax_validate_flags", flags, pax_validate_flags(flags)) >>
        final == ReapplyPreferAcl(mode, flags)
        c3 == c1 \o << Call("pax_set_flags", final, 0) >>
    IN  IF pax_validate_flags(flags) # 0
        THEN Reject("unknown paxflags after the setup: %x", flags, mode, flags, c1)
        ELSE [ret |-> 0, committed |-> TRUE, mode |-> mode, flags |-> final,
              klog |-> NonDefaultLog(mode), ulog |-> << >>,
              calls |-> IF mode # 0
                        THEN c3 \o << Call("pax_log_internal_imgp", 0, 0) >>
                        ELSE c3]

(* pax_elf from the second validation on. *)
PaxElfCommit(mode, flags, calls) ==
    LET c1 == calls \o << Call("pax_validate_flags", flags, pax_validate_flags(flags)) >>
        c2 == c1 \o << Call("pax_check_conflicting_modes", flags,
                            pax_check_conflicting_modes(flags)) >>
        final == ReapplyPreferAcl(mode, flags)
        c3 == c2 \o << Call("pax_set_flags", final, 0) >>
    IN  IF pax_validate_flags(flags) # 0
        THEN Reject("unknown paxflags after the setup: %x", flags, mode, flags, c1)
        ELSE IF pax_check_conflicting_modes(flags) # 0
        THEN Reject("inconsistent paxflags after the setup: %x", flags, mode, flags, c2)
        ELSE [ret |-> 0, committed |-> TRUE, mode |-> mode, flags |-> final,
              klog |-> NonDefaultLog(mode), ulog |-> << >>,
              calls |-> IF mode # 0
                        THEN c3 \o << Call("pax_log_internal_imgp", 0, 0) >>
                        ELSE c3]

(* pax_elf(td, imgp): tdflags is td->td_pax as pax_get_flags_td reads it,  *)
(* hr the hook results.  The result says what the call returns, whether it *)
(* reaches pax_set_flags and with which flags, what it logs and calls.     *)
pax_elf(tdflags, img, hr) ==
    LET c0 == << Call("pax_get_flags_td", 0, tdflags) >>
        mode == pax_get_requested_flags(img)
        c1 == c0 \o << Call("pax_get_requested_flags", 0, mode) >>
        c2 == c1 \o << Call("pax_validate_flags", mode, pax_validate_flags(mode)) >>
        c3 == c2 \o << Call("pax_check_conflicting_modes", mode,
                            pax_check_conflicting_modes(mode)) >>
        c4 == c3 \o HookCalls(hr, mode)
    IN  IF AclOverridePinned(tdflags)
        THEN [ret |-> 0, committed |-> FALSE, mode |-> 0, flags |-> tdflags,
              klog |-> << >>, ulog |-> << >>, calls |-> c0]
        ELSE IF pax_validate_flags(mode) # 0
        THEN Reject("unknown paxflags: %x", mode, mode, 0, c2)
        ELSE IF pax_check_conflicting_modes(mode) # 0
        THEN Reject("inconsistent paxflags: %x", mode, mode, 0, c3)
        ELSE PaxElfCommit(mode, AccumulateHooks(hr, NumHooks), c4)

(***************************************************************************)
(* Image activation, one at a time: the exec path fills the image-load     *)
(* record, the current thread calls pax_elf, the record is discarded.      *)
(***************************************************************************)
ExtattrValues == {0, PAX_NOTE_NOASLR, PAX_NOTE_ASLR + PAX_NOTE_UNKNOWN}

(* A new process: mask zero in the process and in every thread, lock free, *)
(* no thread inside pax_set_flags.                                         *)
QuietStorage ==
    /\ p_pax = 0
    /\ td_pax = [t \in Threads |-> 0]
    /\ p_mtx = 0
    /\ tpc = [t \in Threads |-> "idle"]
    /\ tl = [t \in Threads |-> [flags |-> 0, td0 |-> 1]]
    /\ rd = [t \in Threads |-> NoRead]
    /\ old_pax = 0

(* No image activation in progress. *)
QuietImage ==
    /\ imgp = NoImgp
    /\ phase = "idle"
    /\ elf = NoElf
    /\ resolved = -1

QuietFeature == feat = NoFeat

QuietPrison == prison = NoPrison

QuietValidator == vres = NoVal

Init ==
    QuietStorage /\ QuietImage /\ QuietFeature /\ QuietPrison /\ QuietValidator

ImageActivate ==
    /\ phase = "idle"
    /\ \E acl \in Masks, ext \in ExtattrValues :
         imgp' = [req_acl_flags |-> acl, req_extattr_flags |-> ext, valid |-> TRUE]
    /\ phase' = "imgact"
    /\ UNCHANGED <<p_pax, td_pax, elf, resolved, storevars, feat, prison, vres>>

PaxElf ==
    /\ phase = "imgact"
    /\ \E td \in Threads, hr \in HookTuples :
         LET r == pax_elf(pax_get_flags_td(td), imgp, hr)
             st == pax_set_flags(td_pax, r.flags)
         IN  /\ p_pax' = IF r.committed THEN st.p_pax ELSE p_pax
             /\ td_pax' = IF r.committed THEN st.td_pax ELSE td_pax
             /\ elf' = [td |-> td] @@ r
    /\ phase' = "returned"
    /\ UNCHANGED <<imgp, resolved, storevars, feat, prison, vres>>

ImageDone ==
    /\ phase = "returned"
    /\ imgp' = NoImgp
    /\ elf' = NoElf
    /\ phase' = "idle"
    /\ UNCHANGED <<p_pax, td_pax, resolved, storevars, feat, prison, vres>>

Next == ImageActivate \/ PaxElf \/ ImageDone

Spec == Init /\ [][Next]_vars

(***************************************************************************)
(* The Request Resolver on its own: every pair of request fields of an     *)
(* image-load record, and pax_get_requested_flags applied to it.           *)
(***************************************************************************)
InitRequest ==
    /\ QuietStorage /\ QuietFeature /\ QuietPrison /\ QuietValidator
    /\ phase = "idle" /\ elf = NoElf /\ resolved = -1
    /\ imgp \in { [req_acl_flags |-> acl, req_extattr_flags |-> ext, valid |-> TRUE] :
                  acl \in Masks, ext \in Masks }

GetRequestedFlags ==
    /\ resolved = -1
    /\ resolved' = pax_get_requested_flags(imgp)
    /\ UNCHANGED <<p_pax, td_pax, imgp, phase, elf, storevars, feat, prison, vres>>

NextRequest == GetRequestedFlags

SpecRequest == InitRequest /\ [][NextRequest]_vars

(***************************************************************************)
(* The Mitigation Aggregator with the order of the hook calls a parameter: *)
(* order[k] is the index in HookNames of the hook whose                    *)
(* "flags |= hook(imgp, td, mode)" statement comes k-th.  The order of the *)
(* source text is 1, 2, 3, 4, 5; a hook returns the same result wherever   *)
(* its statement stands.                                                   *)
(***************************************************************************)
HookOrders ==
    { o \in [1..NumHooks -> 1..NumHooks] :
        \A i, j \in 1..NumHooks : o[i] = o[j] => i = j }

SourceOrder == [k \in 1..NumHooks |-> k]

(* Mutant: "flags = hook(...)" written for "flags |= hook(...)". *)
AccumulateHooksIn_Assign(hr, order, n) ==
    IF n = 0 THEN 0 ELSE hr[order[n]]

(* flags = 0; then the n first statements flags |= hook(...) of the order *)
RECURSIVE AccumulateHooksIn(_, _, _)
AccumulateHooksIn(hr, order, n) ==
    IF n = 0 THEN 0
    ELSE BitOr(AccumulateHooksIn(hr, order, n - 1), hr[order[n]])

HookCallsIn(hr, order, mode) ==
    [k \in 1..NumHooks |->
        [fn |-> HookNames[order[k]], arg |-> mode, res |-> hr[order[k]]]]

(* pax_elf with its hook statements in the given order. *)
pax_elf_in_order(tdflags, img, hr, order) ==
    LET c0 == << Call("pax_get_flags_td", 0, tdflags) >>
        mode == pax_get_requested_flags(img)
        c1 == c0 \o << Call("pax_get_requested_flags", 0, mode) >>
        c2 == c1 \o << Call("pax_validate_flags", mode, pax_validate_flags(mode)) >>
        c3 == c2 \o << Call("pax_check_conflicting_modes", mode,
                            pax_check_conflicting_modes(mode)) >>
        c4 == c3 \o HookCallsIn(hr, order, mode)
    IN  IF AclOverridePinned(tdflags)
        THEN [ret |-> 0, committed |-> FALSE, mode |-> 0, flags |-> tdflags,
              klog |-> << >>, ulog |-> << >>, calls |-> c0]
        ELSE IF pax_validate_flags(mode) # 0
        THEN Reject("unknown paxflags: %x", mode, mode, 0, c2)
        ELSE IF pax_check_conflicting_modes(mode) # 0
        THEN Reject("inconsistent paxflags: %x", mode, mode, 0, c3)
        ELSE PaxElfCommit(mode, AccumulateHooksIn(hr, order, NumHooks), c4)

(* The hook results tried with every order: own bits of the ASLR and the   *)
(* no-exec hook, and for two of the other hooks a bit that is not theirs.  *)
OrderHookTuples == { hr \in HookTuples : hr[2] = 0 }

(* One activation of a new process, for every request that reaches pax_elf *)
(* through the ACL field.                                                  *)
InitOrder ==
    /\ QuietStorage /\ QuietFeature /\ QuietPrison /\ QuietValidator
    /\ phase = "imgact" /\ elf = NoElf /\ resolved = -1
    /\ imgp \in { [req_acl_flags |-> acl, req_extattr_flags |-> 0, valid |-> TRUE] :
                  acl \in Masks }

PaxElfInOrder ==
    /\ phase = "imgact"
    /\ \E td \in Threads, hr \in OrderHookTuples, order \in HookOrders :
         LET r == pax_elf_in_order(pax_get_flags_td(td), imgp, hr, order)
             st == pax_set_flags(td_pax, r.flags)
         IN  /\ p_pax' = IF r.committed THEN st.p_pax ELSE p_pax
             /\ td_pax' = IF r.committed THEN st.td_pax ELSE td_pax
             /\ elf' = [td |-> td] @@ r
    /\ phase' = "returned"
    /\ UNCHANGED <<imgp, resolved, storevars, feat, prison, vres>>

NextOrder == PaxElfInOrder

SpecOrder == InitOrder /\ [][NextOrder]_vars

(***************************************************************************)
(* Flag Storage with the threads of the process interleaved.  A thread is  *)
(* idle, or inside pax_set_flags at one of: proc_lock (before PROC_LOCK),  *)
(* set_p (before p->p_pax = flags), set_td (in the FOREACH_THREAD_IN_PROC  *)
(* loop, tl.td0 the next thread to write), proc_unlock.  An idle thread    *)
(* may read with pax_get_flags or pax_get_flags_td, or run pax_elf, which  *)
(* reads td_pax and, unless it returns early, enters pax_set_flags.        *)
(***************************************************************************)
(* The mask before and after the commit in progress, if there is one. *)
CommitPre == IF p_mtx = 0 THEN p_pax ELSE old_pax

CommitPost == IF p_mtx = 0 THEN p_pax ELSE tl[p_mtx].flags

(* What a reader gets: the word it reads, the verdict of the HBSD_DEBUG     *)
(* assertion loop on the storage as it is at the read, and whether another *)
(* thread was inside the critical section of pax_set_flags at the read.    *)
ReadOf(fn, val) ==
    [fn |-> fn, val |-> val, assert_ok |-> DebugAssertHolds, racing |-> p_mtx # 0]

StorageRequests ==
    { [req_acl_flags |-> acl, req_extattr_flags |-> 0, valid |-> TRUE] :
      acl \in {0, PAX_NOTE_PREFER_ACL} }

StorageHookTuples ==
    { <<PAX_NOTE_ASLR, 0, PAX_NOTE_PAGEEXEC, 0, 0>>,
      <<PAX_NOTE_NOASLR, 0, 0, 0, 0>> }

GetFlags(t) ==
    /\ tpc[t] = "idle" /\ rd[t] = NoRead
    /\ rd' = [rd EXCEPT ![t] = ReadOf("pax_get_flags", pax_get_flags)]
    /\ UNCHANGED <<p_pax, td_pax, imgp, phase, elf, resolved, p_mtx, tpc, tl,
                   old_pax, feat, prison, vres>>

GetFlagsTd(t) ==
    /\ tpc[t] = "idle" /\ rd[t] = NoRead
    /\ rd' = [rd EXCEPT ![t] = ReadOf("pax_get_flags_td", pax_get_flags_td(t))]
    /\ UNCHANGED <<p_pax, td_pax, imgp, phase, elf, resolved, p_mtx, tpc, tl,
                   old_pax, feat, prison, vres>>

(* The reader is done with the value it read. *)
ReadDone(t) ==
    /\ tpc[t] = "idle" /\ rd[t] # NoRead
    /\ rd' = [rd EXCEPT ![t] = NoRead]
    /\ UNCHANGED <<p_pax, td_pax, imgp, phase, elf, resolved, p_mtx, tpc, tl,
                   old_pax, feat, prison, vres>>

(* pax_elf up to its call of pax_set_flags (or to its early return); its   *)
(* first statement is a pax_get_flags_td read of the caller's td_pax.      *)
ElfEnter(t) ==
    /\ tpc[t] = "idle" /\ rd[t] = NoRead
    /\ \E img \in StorageRequests, hr \in StorageHookTuples :
         LET r == pax_elf(pax_get_flags_td(t), img, hr)
         IN  /\ tpc' = [tpc EXCEPT ![t] = IF r.committed THEN "proc_lock" ELSE "idle"]
             /\ tl' = [tl EXCEPT ![t] = IF r.committed
                                        THEN [flags |-> r.flags, td0 |-> 1]
                                        ELSE @]
    /\ rd' = [rd EXCEPT ![t] = ReadOf("pax_get_flags_td", pax_get_flags_td(t))]
    /\ UNCHANGED <<p_pax, td_pax, imgp, phase, elf, resolved, p_mtx, old_pax, feat, prison, vres>>

(* Mutant: the lock taken without waiting for its holder to release it. *)
ProcLock_NoWait(t) ==
    /\ tpc[t] = "proc_lock"
    /\ p_mtx' = t
    /\ old_pax' = p_pax
    /\ tpc' = [tpc EXCEPT ![t] = "set_p"]
    /\ rd' = [rd EXCEPT ![t] = NoRead]
    /\ UNCHANGED <<p_pax, td_pax, imgp, phase, elf, resolved, tl, feat, prison, vres>>

ProcLock(t) ==
    /\ tpc[t] = "proc_lock"
    /\ p_mtx = 0
    /\ p_mtx' = t
    /\ old_pax' = p_pax
    /\ tpc' = [tpc EXCEPT ![t] = "set_p"]
    /\ rd' = [rd EXCEPT ![t] = NoRead]
    /\ UNCHANGED <<p_pax, td_pax, imgp, phase, elf, resolved, tl, feat, prison, vres>>

SetProcFlags(t) ==
    /\ tpc[t] = "set_p"
    /\ p_pax' = tl[t].flags
    /\ tpc' = [tpc EXCEPT ![t] = "set_td"]
    /\ tl' = [tl EXCEPT ![t].td0 = 1]
    /\ UNCHANGED <<td_pax, imgp, phase, elf, resolved, p_mtx, rd, old_pax, feat, prison, vres>>

SetThreadFlags(t) ==
    /\ tpc[t] = "set_td"
    /\ td_pax' = pax_set_flags_td(td_pax, tl[t].td0, tl[t].flags)
    /\ IF tl[t].td0 < NumThreads
       THEN /\ tl' = [tl EXCEPT ![t].td0 = @ + 1]
            /\ tpc' = tpc
       ELSE /\ tl' = [tl EXCEPT ![t].td0 = 1]
            /\ tpc' = [tpc EXCEPT ![t] = "proc_unlock"]
    /\ UNCHANGED <<p_pax, imgp, phase, elf, resolved, p_mtx, rd, old_pax, feat, prison, vres>>

(* PROC_UNLOCK; back in pax_elf only the informational log line and *)
(* return (0) are left, which touch no storage.                     *)
ProcUnlock(t) ==
    /\ tpc[t] = "proc_unlock"
    /\ p_mtx' = 0
    /\ old_pax' = 0
    /\ tpc' = [tpc EXCEPT ![t] = "idle"]
    /\ tl' = [tl EXCEPT ![t] = [flags |-> 0, td0 |-> 1]]
    /\ UNCHANGED <<p_pax, td_pax, imgp, phase, elf, resolved, rd, feat, prison, vres>>

NextStorage ==
    \E t \in Threads :
        \/ GetFlags(t)
        \/ GetFlagsTd(t)
        \/ ReadDone(t)
        \/ ElfEnter(t)
        \/ ProcLock(t)
        \/ SetProcFlags(t)
        \/ SetThreadFlags(t)
        \/ ProcUnlock(t)

InitStorage ==
    QuietStorage /\ QuietImage /\ QuietFeature /\ QuietPrison /\ QuietValidator

SpecStorage == InitStorage /\ [][NextStorage]_vars

(***************************************************************************)
(* Feature State (pax_state_t) validation and the jail parameter handler.  *)
(***************************************************************************)
MaxStateValue == 6

StateValues == 0..MaxStateValue

PAX_FEATURE_DISABLED == 0

PAX_FEATURE_OPTIN == 1

PAX_FEATURE_OPTOUT == 2

PAX_FEATURE_FORCE_ENABLED == 3

PAX_FEATURE_SIMPLE_DISABLED == 0

PAX_FEATURE_SIMPLE_ENABLED == 1

ENOENT == 2

EINVAL == 22

(* Mutant: the PAX_FEATURE_OPTOUT case label missing. *)
pax_feature_validate_state_NoOptout(state) ==
    IF state \in {PAX_FEATURE_DISABLED, PAX_FEATURE_OPTIN, PAX_FEATURE_FORCE_ENABLED}
    THEN [state |-> state, ret |-> TRUE]
    ELSE [state |-> PAX_FEATURE_FORCE_ENABLED, ret |-> FALSE]

(* state is *state on entry; the result holds *state on return and the *)
(* value returned.                                                     *)
pax_feature_validate_state(state) ==
    IF state \in {PAX_FEATURE_DISABLED, PAX_FEATURE_OPTIN,
                  PAX_FEATURE_OPTOUT, PAX_FEATURE_FORCE_ENABLED}
    THEN [state |-> state, ret |-> TRUE]
    ELSE [state |-> PAX_FEATURE_FORCE_ENABLED, ret |-> FALSE]

pax_feature_simple_validate_state(state) ==
    IF state \in {PAX_FEATURE_SIMPLE_DISABLED, PAX_FEATURE_SIMPLE_ENABLED}
    THEN [state |-> state, ret |-> TRUE]
    ELSE [state |-> PAX_FEATURE_SIMPLE_ENABLED, ret |-> FALSE]

(* Mutant: the ENOENT case label missing, absence handled by the default. *)
pax_handle_prison_param_NoAbsentCase(error, value, status) ==
    IF error = 0
    THEN [status |-> IF pax_feature_validate_state(value).ret
                     THEN pax_feature_validate_state(value).state
                     ELSE status,
          ret |-> 0]
    ELSE [status |-> status, ret |-> error]

(* error and value are what vfs_copyopt returns and stores in new_state; *)
(* status is *status on entry.  The result holds *status on return and   *)
(* the value returned.                                                   *)
pax_handle_prison_param(error, value, status) ==
    IF error = ENOENT
    THEN [status |-> status, ret |-> 0]
    ELSE IF error = 0
    THEN [status |-> IF pax_feature_validate_state(value).ret
                     THEN pax_feature_validate_state(value).state
                     ELSE status,
          ret |-> 0]
    ELSE [status |-> status, ret |-> error]

LegalStates ==
    {PAX_FEATURE_DISABLED, PAX_FEATURE_OPTIN, PAX_FEATURE_OPTOUT,
     PAX_FEATURE_FORCE_ENABLED}

InitFeature ==
    /\ QuietStorage /\ QuietImage /\ QuietPrison /\ QuietValidator
    /\ feat \in { [op |-> "none", state_in |-> s, state |-> s, status_in |-> st,
                   status |-> st, error |-> e, value |-> v, vret |-> TRUE, ret |-> 0] :
                  s \in StateValues, st \in LegalStates,
                  e \in {0, ENOENT, EINVAL}, v \in StateValues }

FeatureValidateState ==
    /\ feat.op = "none"
    /\ feat' = [feat EXCEPT !.op = "pax_feature_validate_state",
                            !.state = pax_feature_validate_state(feat.state).state,
                            !.vret = pax_feature_validate_state(feat.state).ret]
    /\ UNCHANGED <<p_pax, td_pax, imgp, phase, elf, resolved, storevars, prison, vres>>

FeatureSimpleValidateState ==
    /\ feat.op = "none"
    /\ feat' = [feat EXCEPT !.op = "pax_feature_simple_validate_state",
                            !.state = pax_feature_simple_validate_state(feat.state).state,
                            !.vret = pax_feature_simple_validate_state(feat.state).ret]
    /\ UNCHANGED <<p_pax, td_pax, imgp, phase, elf, resolved, storevars, prison, vres>>

HandlePrisonParam ==
    /\ feat.op = "none"
    /\ LET r == pax_handle_prison_param(feat.error, feat.value, feat.status)
       IN  feat' = [feat EXCEPT !.op = "pax_handle_prison_param",
                                !.status = r.status, !.ret = r.ret]
    /\ UNCHANGED <<p_pax, td_pax, imgp, phase, elf, resolved, storevars, prison, vres>>

NextFeature == FeatureValidateState \/ FeatureSimpleValidateState \/ HandlePrisonParam

SpecFeature == InitFeature /\ [][NextFeature]_vars

(***************************************************************************)
(* Jail Policy Initializer: pax_init_prison.  The engines' per-prison      *)
(* initializers live outside this file; what each returns is an input.     *)
(* res[i] is what the i-th initializer of InitializerNames returns when it *)
(* is called.                                                              *)
(***************************************************************************)
InitializerNames ==
    << "pax_aslr_init_prison", "pax_hardening_init_prison",
       "pax_noexec_init_prison", "pax_segvguard_init_prison",
       "pax_aslr_init_prison32", "pax_log_init_prison" >>

NumInitializers == Len(InitializerNames)

EPERM == 1

InitializerReturns == {0, EPERM, EINVAL}

InitializerResults ==
    { <<a, b, c, d, e, f>> : a \in InitializerReturns, b \in InitializerReturns,
                             c \in InitializerReturns, d \in InitializerReturns,
                             e \in InitializerReturns, f \in InitializerReturns }

(* The initializers of the build in the order of the source text: the one *)
(* under #ifdef COMPAT_FREEBSD32 is there only when that is defined.      *)
InitializerOrder(compat32) ==
    IF compat32 THEN << 1, 2, 3, 4, 5, 6 >> ELSE << 1, 2, 3, 4, 6 >>

(* Mutant: ret = false kept but the goto out missing: the chain goes on. *)
RECURSIVE InitChain_NoGoto(_, _, _)
InitChain_NoGoto(order, res, k) ==
    IF k > Len(order) THEN [calls |-> << >>, ret |-> TRUE]
    ELSE LET rest == InitChain_NoGoto(order, res, k + 1)
         IN  [calls |-> << InitializerNames[order[k]] >> \o rest.calls,
              ret |-> IF res[order[k]] # 0 THEN FALSE ELSE rest.ret]

(* The chain of "if (init(pr, opts) != 0) { ret = false; goto out; }" from *)
(* the k-th initializer of the build on, ending in ret = true: the         *)
(* initializers called and the value of ret at the label out.              *)
RECURSIVE InitChain(_, _, _)
InitChain(order, res, k) ==
    IF k > Len(order) THEN [calls |-> << >>, ret |-> TRUE]
    ELSE IF res[order[k]] # 0
    THEN [calls |-> << InitializerNames[order[k]] >>, ret |-> FALSE]
    ELSE LET rest == InitChain(order, res, k + 1)
         IN  [calls |-> << InitializerNames[order[k]] >> \o rest.calls,
              ret |-> rest.ret]

(* KASSERT(exp, msg) with INVARIANTS: execution goes on iff exp holds, *)
(* otherwise the kernel panics with msg.                               *)
KASSERT(exp) == exp

(* Mutant: the assertion without its "|| pr != &prison0" part. *)
pax_init_prison_AssertEveryPrison(is_root, res, compat32) ==
    LET c == InitChain(InitializerOrder(compat32), res, 1)
        exp == is_root /\ c.ret = TRUE
    IN  [calls |-> c.calls, ret |-> c.ret, assert_ok |-> exp,
         returned |-> KASSERT(exp)]

(* pax_init_prison(pr, opts): is_root is pr == &prison0.  The result holds *)
(* the initializers called in order, ret at the label out, the value of    *)
(* the asserted expression and whether return (ret) is reached.            *)
pax_init_prison(is_root, res, compat32) ==
    LET c == InitChain(InitializerOrder(compat32), res, 1)
        exp == (is_root /\ c.ret = TRUE) \/ ~is_root
    IN  [calls |-> c.calls, ret |-> c.ret, assert_ok |-> exp,
         returned |-> KASSERT(exp)]

InitPrison ==
    /\ QuietStorage /\ QuietImage /\ QuietFeature /\ QuietValidator
    /\ prison \in { [op |-> "none", is_root |-> root, compat32 |-> c32,
                     res |-> res, calls |-> << >>, ret |-> TRUE,
                     assert_ok |-> TRUE, returned |-> FALSE] :
                    root \in BOOLEAN, c32 \in BOOLEAN, res \in InitializerResults }

PaxInitPrison ==
    /\ prison.op = "none"
    /\ LET r == pax_init_prison(prison.is_root, prison.res, prison.compat32)
       IN  prison' = [prison EXCEPT !.op = "pax_init_prison",
                                    !.calls = r.calls, !.ret = r.ret,
                                    !.assert_ok = r.assert_ok,
                                    !.returned = r.returned]
    /\ UNCHANGED <<p_pax, td_pax, imgp, phase, elf, resolved, storevars, feat, vres>>

NextPrison == PaxInitPrison

SpecPrison == InitPrison /\ [][NextPrison]_vars

(***************************************************************************)
(* The Flag Validator on its own: each predicate applied to every mask.    *)
(* The mask is passed by value; vres.mode is the caller's mask after the   *)
(* call.                                                                   *)
(***************************************************************************)
InitValidator ==
    /\ QuietStorage /\ QuietImage /\ QuietFeature /\ QuietPrison
    /\ vres \in { [op |-> "none", mode_in |-> m, mode |-> m, ret |-> 0] : m \in Masks }

ValidateFlags ==
    /\ vres.op = "none"
    /\ vres' = [vres EXCEPT !.op = "pax_validate_flags",
                          !.ret = pax_validate_flags(vres.mode)]
    /\ UNCHANGED <<p_pax, td_pax, imgp, phase, elf, resolved, storevars, feat, prison>>

CheckConflictingModes ==
    /\ vres.op = "none"
    /\ vres' = [vres EXCEPT !.op = "pax_check_conflicting_modes",
                          !.ret = pax_check_conflicting_modes(vres.mode)]
    /\ UNCHANGED <<p_pax, td_pax, imgp, phase, elf, resolved, storevars, feat, prison>>

NextValidator == ValidateFlags \/ CheckConflictingModes

SpecValidator == InitValidator /\ [][NextValidator]_vars

(***************************************************************************)
(* Vocabulary of the properties, stated on single bits and independent of  *)
(* the validator's own arithmetic.                                         *)
(***************************************************************************)
Bit(m, i) == (m \div (2^i)) % 2

BitPositions == 0..(FlagBits - 1)

HasUnknownBit(m) ==
    \E i \in BitPositions : Bit(m, i) = 1 /\ Bit(PAX_NOTE_ALL, i) = 0

(* An enable bit e of PAX_NOTE_ALL_ENABLED and the bit above it both set. *)
HasConflictingPair(m) ==
    \E i \in BitPositions :
        /\ Bit(PAX_NOTE_ALL_ENABLED, i) = 1
        /\ Bit(m, i) = 1
        /\ i + 1 \in BitPositions /\ Bit(m, i + 1) = 1

HasMarker(m) == \E i \in BitPositions : Bit(PAX_NOTE_PREFER_ACL, i) = 1 /\ Bit(m, i) = 1

(* The step in which pax_elf runs and returns. *)
ElfStep == phase = "imgact" /\ phase' = "returned"

StorageUnchanged == p_pax' = p_pax /\ td_pax' = td_pax

IsHookCall(c) == \E k \in 1..NumHooks : HookNames[k] = c.fn

(* Bit i is set in the result of some hook called in the activation. *)
AggregatedBit(calls, i) ==
    \E k \in DOMAIN calls : IsHookCall(calls[k]) /\ Bit(calls[k].res, i) = 1

AggregatedUnknown(calls) ==
    \E i \in BitPositions : AggregatedBit(calls, i) /\ Bit(PAX_NOTE_ALL, i) = 0

AggregatedConflict(calls) ==
    \E i \in BitPositions :
        /\ Bit(PAX_NOTE_ALL_ENABLED, i) = 1
        /\ AggregatedBit(calls, i)
        /\ i + 1 \in BitPositions /\ AggregatedBit(calls, i + 1)

CalledFns(calls) == { calls[k].fn : k \in DOMAIN calls }

(***************************************************************************)
(* C1.  From a process whose mask is zero, after any sequence of pax_elf   *)
(* activations (accepted, rejected or short-circuited), p_pax has no bit   *)
(* set outside PAX_NOTE_ALL, the re-applied prefer-ACL marker included.    *)
(***************************************************************************)
C1_NoBitOutsideAll == ~HasUnknownBit(p_pax)

(* A commit in which the marker was OR-ed into the validated result. *)
C1_Witness ==
    /\ phase = "returned" /\ elf.committed
    /\ HasMarker(elf.mode) /\ HasMarker(p_pax)
    /\ p_pax # PAX_NOTE_PREFER_ACL

(***************************************************************************)
(* C2.  From a process whose mask is zero, after any sequence of pax_elf   *)
(* activations, p_pax never has both the enable bit and the paired disable *)
(* bit of one mitigation, also after the marker is re-applied.             *)
(***************************************************************************)
C2_NoConflictingPair == ~HasConflictingPair(p_pax)

(* A commit with the marker whose mask holds the disable bit of one pair   *)
(* right below the enable bit of the next pair: adjacent, not conflicting. *)
C2_Witness ==
    /\ phase = "returned" /\ elf.committed /\ HasMarker(p_pax)
    /\ Bit(p_pax, 1) = 1 /\ Bit(p_pax, 2) = 1

(***************************************************************************)
(* C3.  pax_elf returns 0 or ENOEXEC and nothing else; whenever it rejects *)
(* (it returns non-zero; and it does so whenever it is not short-circuited *)
(* and the requested mode or the aggregated hook result has unknown or     *)
(* conflicting bits) the return value is ENOEXEC and p_pax and every       *)
(* td_pax are what they were before the call.                              *)
(***************************************************************************)
C3_RejectionLeavesStorage ==
    [][ElfStep =>
        /\ elf'.ret \in {0, ENOEXEC}
        /\ (elf'.ret # 0 => StorageUnchanged)
        /\ ( ( /\ ~HasMarker(td_pax[elf'.td])
               /\ \/ HasUnknownBit(pax_get_requested_flags(imgp))
                  \/ HasConflictingPair(pax_get_requested_flags(imgp))
                  \/ AggregatedUnknown(elf'.calls)
                  \/ AggregatedConflict(elf'.calls) )
             => (elf'.ret = ENOEXEC /\ StorageUnchanged) )]_vars

(* A re-exec rejected for a conflict in the aggregated result, the process *)
(* keeping a non-zero mask.                                                *)
C3_Witness ==
    /\ phase = "returned" /\ elf.ret = ENOEXEC
    /\ ~HasConflictingPair(elf.mode) /\ ~HasUnknownBit(elf.mode)
    /\ AggregatedConflict(elf.calls)
    /\ p_pax # 0 /\ \A t \in Threads : td_pax[t] = p_pax

(***************************************************************************)
(* C4 as stated.  For every image activation, whatever the prior mask: a   *)
(* requested mode with a bit outside PAX_NOTE_ALL, or with both bits of a  *)
(* pair, makes the activation fail with ENOEXEC, with a kernel log line    *)
(* and a user log line, the prior mask unchanged.                          *)
(***************************************************************************)
BadRequest(img) ==
    \/ HasUnknownBit(pax_get_requested_flags(img))
    \/ HasConflictingPair(pax_get_requested_flags(img))

RejectedWithBothLogs(e) ==
    /\ e.ret = ENOEXEC
    /\ Len(e.klog) = 1 /\ Len(e.ulog) = 1

C4_Original ==
    [][(ElfStep /\ BadRequest(imgp))
        => (RejectedWithBothLogs(elf') /\ StorageUnchanged)]_vars

(***************************************************************************)
(* C4 amended.  The same for every image activation whose calling thread's *)
(* committed mask does not carry the PAX_NOTE_PREFER_ACL marker (with the  *)
(* marker, pax_elf returns 0 before it looks at the request).              *)
(***************************************************************************)
C4_BadRequestRejected ==
    [][(ElfStep /\ BadRequest(imgp) /\ ~HasMarker(td_pax[elf'.td]))
        => (RejectedWithBothLogs(elf') /\ StorageUnchanged)]_vars

(* A re-exec (non-zero prior mask) rejected for its requested mode. *)
C4_Witness ==
    /\ phase = "returned" /\ BadRequest(imgp)
    /\ RejectedWithBothLogs(elf)
    /\ p_pax # 0 /\ ~HasMarker(p_pax)

(***************************************************************************)
(* C8.  Once the calling thread's committed mask carries the marker,       *)
(* pax_elf returns 0, leaves p_pax and every td_pax unchanged, calls       *)
(* nothing but pax_get_flags_td (no request extraction, no validation, no  *)
(* hook) and logs nothing; so a mask with the marker never changes again.  *)
(***************************************************************************)
C8_PinnedMaskStays ==
    [][ /\ (ElfStep /\ HasMarker(td_pax[elf'.td]))
            => /\ elf'.ret = 0
               /\ StorageUnchanged
               /\ CalledFns(elf'.calls) = {"pax_get_flags_td"}
               /\ elf'.klog = << >> /\ elf'.ulog = << >>
        /\ HasMarker(p_pax) => StorageUnchanged ]_vars

(* A short-circuited activation whose request would have been rejected. *)
C8_Witness ==
    /\ phase = "returned" /\ HasMarker(p_pax)
    /\ BadRequest(imgp)
    /\ elf.ret = 0 /\ ~elf.committed /\ Len(elf.calls) = 1

(***************************************************************************)
(* C5.  In every reachable state, also while another thread is in the      *)
(* middle of pax_set_flags, every td_pax of the process equals p_pax: the  *)
(* HBSD_DEBUG assertion td->td_pax == p->p_pax, which pax_get_flags and    *)
(* pax_get_flags_td evaluate for all threads without the process lock,     *)
(* never fails for a reader interleaved with a committing thread.          *)
(***************************************************************************)
C5_DebugAssertNeverFails == \A t \in Threads : rd[t].assert_ok

(***************************************************************************)
(* C6.  The value pax_get_flags or pax_get_flags_td returns to a reader    *)
(* running concurrently with a pax_set_flags commit of the same process is *)
(* the whole mask committed before that commit or the whole mask it        *)
(* commits, never a mix of the two.                                        *)
(***************************************************************************)
ReadStep(t) == rd[t] = NoRead /\ rd'[t] # NoRead

C6_ReaderSeesWholeMask ==
    [][\A t \in Threads : ReadStep(t) => rd'[t].val \in {CommitPre, CommitPost}]_vars

(* A pax_get_flags reader that ran inside another thread's commit and got  *)
(* the new mask while its own td_pax still holds the old one.              *)
C6_Witness ==
    \E t \in Threads :
        /\ rd[t].fn = "pax_get_flags" /\ rd[t].racing
        /\ p_mtx # 0 /\ p_mtx # t /\ tpc[p_mtx] = "set_td"
        /\ rd[t].val = tl[p_mtx].flags
        /\ rd[t].val # old_pax
        /\ td_pax[t] = old_pax

(***************************************************************************)
(* C7.  With both control channels compiled in, pax_get_requested_flags    *)
(* returns, for every pair (acl, extattr): acl when acl carries the        *)
(* PAX_NOTE_PREFER_ACL marker (extattr ignored, also when non-zero);       *)
(* otherwise extattr when extattr is non-zero; otherwise acl.              *)
(***************************************************************************)
C7_ResolverPrecedence ==
    resolved # -1 =>
        resolved = IF HasMarker(imgp.req_acl_flags) THEN imgp.req_acl_flags
                   ELSE IF imgp.req_extattr_flags # 0 THEN imgp.req_extattr_flags
                   ELSE imgp.req_acl_flags

(* Scenario 4: the marker in acl, a different non-zero extattr, acl chosen. *)
C7_Witness ==
    /\ resolved # -1
    /\ HasMarker(imgp.req_acl_flags)
    /\ imgp.req_extattr_flags # 0
    /\ imgp.req_extattr_flags # imgp.req_acl_flags
    /\ resolved = imgp.req_acl_flags

(***************************************************************************)
(* C9.  pax_feature_validate_state leaves a state that is one of the four  *)
(* legal ones as it is and returns true; any other value is overwritten    *)
(* with PAX_FEATURE_FORCE_ENABLED and false is returned.  The simple       *)
(* validator does the same over its two legal states, coercing to          *)
(* PAX_FEATURE_SIMPLE_ENABLED.  The state is legal after either call.      *)
(***************************************************************************)
C9_ValidatorsNormalize ==
    /\ feat.op = "pax_feature_validate_state" =>
         /\ feat.state \in {0, 1, 2, 3}
         /\ IF feat.state_in \in {0, 1, 2, 3}
            THEN feat.state = feat.state_in /\ feat.vret = TRUE
            ELSE feat.state = PAX_FEATURE_FORCE_ENABLED /\ feat.vret = FALSE
    /\ feat.op = "pax_feature_simple_validate_state" =>
         /\ feat.state \in {0, 1}
         /\ IF feat.state_in \in {0, 1}
            THEN feat.state = feat.state_in /\ feat.vret = TRUE
            ELSE feat.state = PAX_FEATURE_SIMPLE_ENABLED /\ feat.vret = FALSE

(* An out-of-range state coerced by the four-state validator. *)
C9_Witness ==
    /\ feat.op = "pax_feature_validate_state"
    /\ feat.state_in > 3
    /\ feat.state = 3 /\ feat.vret = FALSE

(***************************************************************************)
(* C10.  When the parameter lookup finds a value (returns 0),              *)
(* pax_handle_prison_param validates it and uses it: afterwards *status is *)
(* the supplied value when that is one of the four legal states, and the   *)
(* coerced force-enabled state when it is out of range.                    *)
(***************************************************************************)
C10_ParamValidatedAndUsed ==
    (feat.op = "pax_handle_prison_param" /\ feat.error = 0) =>
        feat.status = IF feat.value \in {0, 1, 2, 3}
                      THEN feat.value
                      ELSE PAX_FEATURE_FORCE_ENABLED

(***************************************************************************)
(* C11.  pax_handle_prison_param leaves *status as it was and returns 0    *)
(* when the parameter is absent (vfs_copyopt returns ENOENT), so the value *)
(* inherited from the parent stays; when the lookup returns an error other *)
(* than 0 and ENOENT, that error is returned and *status is as it was.     *)
(***************************************************************************)
C11_AbsentOrErrorKeepsStatus ==
    feat.op = "pax_handle_prison_param" =>
        /\ feat.error = ENOENT => (feat.status = feat.status_in /\ feat.ret = 0)
        /\ feat.error \notin {0, ENOENT} =>
               (feat.status = feat.status_in /\ feat.ret = feat.error)

(* The parameter absent while new_state holds some other legal state: the *)
(* inherited value is kept.                                               *)
C11_Witness ==
    /\ feat.op = "pax_handle_prison_param" /\ feat.error = ENOENT
    /\ feat.value \in LegalStates /\ feat.value # feat.status_in
    /\ feat.status = feat.status_in /\ feat.ret = 0

(***************************************************************************)
(* C12.  pax_init_prison calls the per-prison initializers in the order    *)
(* ASLR, hardening, no-exec, segv-guard, 32-bit compat ASLR (when compiled *)
(* in), logging; it stops at the first one that returns non-zero, so none  *)
(* is called after a failure; and it returns true if and only if every     *)
(* initializer returned 0.                                                 *)
(***************************************************************************)
ClaimedOrder(compat32) ==
    << "pax_aslr_init_prison", "pax_hardening_init_prison",
       "pax_noexec_init_prison", "pax_segvguard_init_prison" >>
    \o (IF compat32 THEN << "pax_aslr_init_prison32" >> ELSE << >>)
    \o << "pax_log_init_prison" >>

(* What the named initializer returns in this call of pax_init_prison. *)
ResultOf(name) ==
    prison.res[CHOOSE i \in 1..NumInitializers : InitializerNames[i] = name]

C12_InitOrderShortCircuit ==
    prison.op = "pax_init_prison" =>
        LET order == ClaimedOrder(prison.compat32)
            n == Len(prison.calls)
        IN  /\ n \in 1..Len(order)
            /\ \A k \in 1..n : prison.calls[k] = order[k]
            /\ \A k \in 1..(n - 1) : ResultOf(prison.calls[k]) = 0
            /\ n < Len(order) => ResultOf(prison.calls[n]) # 0
            /\ (prison.returned /\ prison.ret)
                   <=> (\A k \in 1..Len(order) : ResultOf(order[k]) = 0)

(* The compat initializer compiled in and the first to fail: five calls, *)
(* the logging initializer never called, false returned.                 *)
C12_Witness ==
    /\ prison.op = "pax_init_prison" /\ prison.compat32 /\ ~prison.is_root
    /\ Len(prison.calls) = 5
    /\ prison.calls[5] = "pax_aslr_init_prison32"
    /\ ResultOf("pax_log_init_prison") # 0
    /\ prison.returned /\ prison.ret = FALSE

(***************************************************************************)
(* C13.  When every hook returns only bits of its own sub-range, the       *)
(* sub-ranges pairwise disjoint, the mask pax_elf commits for a requested  *)
(* mode is the same for every order in which the five hooks are called and *)
(* OR-ed into the accumulator: whatever the order taken, it is the mask    *)
(* committed with the hooks in the order of the source.                    *)
(***************************************************************************)
(* The bits each hook owns in the scaled layout: the ASLR pair, the        *)
(* PAGEEXEC pair, none for the three engines whose bits are left out.      *)
HookSubRange ==
    << PAX_NOTE_ASLR + PAX_NOTE_NOASLR, 0,
       PAX_NOTE_PAGEEXEC + PAX_NOTE_NOPAGEEXEC, 0, 0 >>

(* What the hook named HookNames[i] returned in the activation. *)
ResultsByHook(calls) ==
    [i \in 1..NumHooks |->
        LET k == CHOOSE k \in DOMAIN calls : calls[k].fn = HookNames[i]
        IN  calls[k].res]

OwnSubRanges(hr) ==
    \A i \in 1..NumHooks, b \in BitPositions :
        Bit(hr[i], b) = 1 => Bit(HookSubRange[i], b) = 1

PositionOf(calls, fn) == CHOOSE k \in DOMAIN calls : calls[k].fn = fn

C13_HookOrderIrrelevant ==
    (phase = "returned" /\ elf.committed /\ OwnSubRanges(ResultsByHook(elf.calls)))
        => p_pax = pax_elf(0, imgp, ResultsByHook(elf.calls)).flags

(* The no-exec hook called before the ASLR hook, both returning a bit of *)
(* their own, both bits committed.                                       *)
C13_Witness ==
    /\ phase = "returned" /\ elf.committed
    /\ OwnSubRanges(ResultsByHook(elf.calls))
    /\ PositionOf(elf.calls, "pax_noexec_setup_flags")
         < PositionOf(elf.calls, "pax_aslr_setup_flags")
    /\ Bit(p_pax, 0) = 1 /\ Bit(p_pax, 3) = 1

(***************************************************************************)
(* C14.  For every mask m, pax_check_conflicting_modes(m) returns 1 if and *)
(* only if some pair, enable bit e in PAX_NOTE_ALL_ENABLED and disable bit *)
(* d = e << 1 in PAX_NOTE_ALL_DISABLED, has both e and d set in m, and 0   *)
(* for every other mask; the caller's mask is as it was.                   *)
(***************************************************************************)
BothBitsOfAPair(m) ==
    \E i \in BitPositions :
        /\ i + 1 \in BitPositions
        /\ Bit(PAX_NOTE_ALL_ENABLED, i) = 1 /\ Bit(PAX_NOTE_ALL_DISABLED, i + 1) = 1
        /\ Bit(m, i) = 1 /\ Bit(m, i + 1) = 1

C14_ConflictIffPairSet ==
    vres.op = "pax_check_conflicting_modes" =>
        /\ vres.ret = IF BothBitsOfAPair(vres.mode_in) THEN 1 ELSE 0
        /\ vres.mode = vres.mode_in

(* The disable bit of one pair next to the enable bit of the other pair, *)
(* no pair complete: not a conflict.                                     *)
C14_Witness ==
    /\ vres.op = "pax_check_conflicting_modes"
    /\ Bit(vres.mode_in, 1) = 1 /\ Bit(vres.mode_in, 2) = 1
    /\ Bit(vres.mode_in, 0) = 0 /\ Bit(vres.mode_in, 3) = 0
    /\ vres.ret = 0

(***************************************************************************)
(* Vocabulary on the calls of one activation, in the order they are made.  *)
(***************************************************************************)
(* The OR of the hook results of the activation, put together bit by bit. *)
RECURSIVE HookOrFrom(_, _)
HookOrFrom(calls, i) ==
    IF i = FlagBits THEN 0
    ELSE (IF AggregatedBit(calls, i) THEN 2^i ELSE 0) + HookOrFrom(calls, i + 1)

HookOr(calls) == HookOrFrom(calls, 0)

AfterEveryHook(calls, j) ==
    \A h \in DOMAIN calls : IsHookCall(calls[h]) => h < j

(* fn was called on arg before the k-th call and returned 0. *)
PassedBefore(calls, k, fn, arg) ==
    \E j \in 1..(k - 1) :
        calls[j].fn = fn /\ calls[j].arg = arg /\ calls[j].res = 0

(* The same, the call being made after the last hook call. *)
PassedOnResultBefore(calls, k, fn, arg) ==
    \E j \in 1..(k - 1) :
        /\ calls[j].fn = fn /\ calls[j].arg = arg /\ calls[j].res = 0
        /\ AfterEveryHook(calls, j)

(* fn evaluated once on the requested mode and once more, later and after *)
(* the hooks, on the aggregated result.                                   *)
EvaluatedOnModeAndResult(calls, fn, mode) ==
    LET result == HookOr(calls)
    IN  \E j, k \in DOMAIN calls :
            /\ j < k
            /\ calls[j].fn = fn /\ calls[j].arg = mode
            /\ calls[k].fn = fn /\ calls[k].arg = result
            /\ AfterEveryHook(calls, k)

HooksAfterModePassed(calls) ==
    \A k \in DOMAIN calls :
        IsHookCall(calls[k]) =>
            /\ PassedBefore(calls, k, "pax_validate_flags", calls[k].arg)
            /\ PassedBefore(calls, k, "pax_check_conflicting_modes", calls[k].arg)

CommitAfterResultPassed(calls) ==
    LET result == HookOr(calls)
    IN  \A k \in DOMAIN calls :
            calls[k].fn = "pax_set_flags" =>
                /\ PassedOnResultBefore(calls, k, "pax_validate_flags", result)
                /\ PassedOnResultBefore(calls, k, "pax_check_conflicting_modes",
                                        result)

RequestedMode == pax_get_requested_flags(imgp)

(***************************************************************************)
(* C15 as stated.  In every image activation both validator predicates are *)
(* evaluated at least twice, once on the requested mode and once on the    *)
(* aggregated result; no hook is called before both passed on the mode and *)
(* pax_set_flags is not called before both passed on the aggregated result.*)
(***************************************************************************)
C15_Original ==
    phase = "returned" =>
        /\ EvaluatedOnModeAndResult(elf.calls, "pax_validate_flags", RequestedMode)
        /\ EvaluatedOnModeAndResult(elf.calls, "pax_check_conflicting_modes",
                                    RequestedMode)
        /\ HooksAfterModePassed(elf.calls)
        /\ CommitAfterResultPassed(elf.calls)

(***************************************************************************)
(* C15 amended.  In every image activation that commits, both predicates   *)
(* were evaluated twice, once on the requested mode and once on the        *)
(* aggregated result; in every activation, no hook is called before both   *)
(* passed on the mode and pax_set_flags is not called before both passed   *)
(* on the aggregated result.  (A short-circuited activation evaluates      *)
(* neither, a rejected one stops at the predicate that fails.)             *)
(***************************************************************************)
C15_ValidatedBeforeHooksAndCommit ==
    phase = "returned" =>
        /\ elf.committed =>
              /\ EvaluatedOnModeAndResult(elf.calls, "pax_validate_flags",
                                          RequestedMode)
              /\ EvaluatedOnModeAndResult(elf.calls, "pax_check_conflicting_modes",
                                          RequestedMode)
        /\ HooksAfterModePassed(elf.calls)
        /\ CommitAfterResultPassed(elf.calls)

(* A re-exec that commits: a non-zero requested mode, a different non-zero *)
(* aggregated result, a non-zero mask before.                              *)
C15_Witness ==
    /\ phase = "returned" /\ elf.committed
    /\ RequestedMode # 0 /\ HookOr(elf.calls) # 0
    /\ HookOr(elf.calls) # RequestedMode
    /\ \E k \in DOMAIN elf.calls :
          elf.calls[k].fn = "pax_get_flags_td" /\ elf.calls[k].res # 0

(***************************************************************************)
(* C16.  With ACL override support compiled in, the mask of every pax_elf  *)
(* activation that commits carries the PAX_NOTE_PREFER_ACL marker if and   *)
(* only if the requested mode carries it, whatever the hooks returned for  *)
(* that bit; every other bit of the committed mask is set if and only if   *)
(* some hook returned it.                                                  *)
(***************************************************************************)
C16_MarkerFollowsRequest ==
    (phase = "returned" /\ elf.committed) =>
        /\ HasMarker(p_pax) <=> HasMarker(RequestedMode)
        /\ \A i \in BitPositions :
              Bit(PAX_NOTE_PREFER_ACL, i) = 0 =>
                  (Bit(p_pax, i) = 1 <=> AggregatedBit(elf.calls, i))

(* A hook returned the marker, the requested mode is non-zero without it: *)
(* the committed mask has the other hook bits and not the marker.         *)
C16_Witness ==
    /\ phase = "returned" /\ elf.committed
    /\ HasMarker(HookOr(elf.calls))
    /\ RequestedMode # 0 /\ ~HasMarker(RequestedMode)
    /\ ~HasMarker(p_pax) /\ p_pax # 0

(***************************************************************************)
(* C17 as stated.  At each image activation the committed mask is          *)
(* overwritten exactly once, as a whole: pax_elf calls pax_set_flags       *)
(* exactly once per activation, and the new p_pax is determined by the     *)
(* requested mode and the hook results alone, no bit carried over from the *)
(* mask committed before.                                                  *)
(***************************************************************************)
SetFlagsCalls(calls) ==
    Cardinality({ k \in DOMAIN calls : calls[k].fn = "pax_set_flags" })

(* The mask the requested mode and the hook results stand for: the marker *)
(* from the mode, every other bit from the hooks.                         *)
RECURSIVE MaskOfRequestFrom(_, _, _)
MaskOfRequestFrom(mode, calls, i) ==
    IF i = FlagBits THEN 0
    ELSE (IF Bit(PAX_NOTE_PREFER_ACL, i) = 1
          THEN (IF Bit(mode, i) = 1 THEN 2^i ELSE 0)
          ELSE (IF AggregatedBit(calls, i) THEN 2^i ELSE 0))
         + MaskOfRequestFrom(mode, calls, i + 1)

MaskOfRequest(mode, calls) == MaskOfRequestFrom(mode, calls, 0)

WholeMaskIs(m) == p_pax' = m /\ \A t \in Threads : td_pax'[t] = m

C17_Original ==
    [][ElfStep =>
        /\ SetFlagsCalls(elf'.calls) = 1
        /\ WholeMaskIs(MaskOfRequest(RequestedMode, elf'.calls))]_vars

(***************************************************************************)
(* C17 amended.  pax_elf calls pax_set_flags at most once per activation,  *)
(* and exactly once when the activation is neither short-circuited by the  *)
(* marker nor rejected; then p_pax and every td_pax are overwritten as a   *)
(* whole with a mask determined by the requested mode and the hook results *)
(* alone.  When it is short-circuited or rejected the mask committed       *)
(* before stays as it is.                                                  *)
(***************************************************************************)
C17_OverwrittenOnceWhenCommitted ==
    [][ElfStep =>
        /\ SetFlagsCalls(elf'.calls) <= 1
        /\ SetFlagsCalls(elf'.calls) = 1
              <=> (~HasMarker(td_pax[elf'.td]) /\ elf'.ret = 0)
        /\ SetFlagsCalls(elf'.calls) = 1
              => WholeMaskIs(MaskOfRequest(RequestedMode, elf'.calls))
        /\ SetFlagsCalls(elf'.calls) = 0 => StorageUnchanged]_vars

(* A re-exec that commits a mask lacking a bit of the mask before. *)
C17_Witness ==
    /\ phase = "returned" /\ elf.committed
    /\ SetFlagsCalls(elf.calls) = 1
    /\ \E i \in BitPositions : Bit(elf.calls[1].res, i) = 1 /\ Bit(p_pax, i) = 0
    /\ p_pax # 0

(***************************************************************************)
(* C18.  Every write to p_pax or to a td_pax is made by a thread that      *)
(* holds the process lock; the lock is released when pax_set_flags         *)
(* returns; whenever the lock is free, every td_pax of the process equals  *)
(* p_pax.  This for every interleaving of the threads of the process, each *)
(* committing its own mask: when a thread releases the lock, p_pax and all *)
(* copies are the mask that thread committed.                              *)
(***************************************************************************)
AtWrite(t) == tpc[t] \in {"set_p", "set_td"}

InSetFlags(t) == tpc[t] \in {"proc_lock", "set_p", "set_td", "proc_unlock"}

LockDiscipline ==
    /\ \A t \in Threads : AtWrite(t) => p_mtx = t
    /\ \A t \in Threads : ~InSetFlags(t) => p_mtx # t
    /\ p_mtx = 0 => \A t \in Threads : td_pax[t] = p_pax

C18_WritesUnderLock ==
    /\ LockDiscipline
    /\ [][ /\ LockDiscipline'
           /\ (p_pax' # p_pax \/ td_pax' # td_pax)
                 => (p_mtx # 0 /\ AtWrite(p_mtx) /\ p_mtx' = p_mtx)
           /\ \A t \in Threads :
                 (InSetFlags(t) /\ ~InSetFlags(t)')
                     => /\ p_mtx = t /\ p_mtx' = 0
                        /\ p_pax' = tl[t].flags
                        /\ \A t0 \in Threads : td_pax'[t0] = tl[t].flags ]_vars

(* A thread has written its mask over an earlier commit and is about to   *)
(* release the lock while another thread waits for it with another mask. *)
C18_Witness ==
    \E t, u \in Threads :
        /\ tpc[t] = "proc_unlock" /\ p_mtx = t
        /\ tpc[u] = "proc_lock" /\ tl[u].flags # tl[t].flags
        /\ old_pax # 0 /\ old_pax # tl[t].flags
        /\ p_pax = tl[t].flags /\ \A t0 \in Threads : td_pax[t0] = p_pax

(***************************************************************************)
(* C19.  pax_elf emits the informational line "the process started with    *)
(* non-default hardening settings" if and only if the activation commits   *)
(* and the requested mode is non-zero: a successful activation with        *)
(* requested mode 0 logs nothing at all, a rejected one logs its rejection *)
(* lines and not the informational line, and the informational line comes  *)
(* only after the commit.                                                  *)
(***************************************************************************)
InfoLine == "the process started with non-default hardening settings"

InfoLogged(e) ==
    \/ \E k \in DOMAIN e.klog : e.klog[k].line = InfoLine
    \/ \E k \in DOMAIN e.ulog : e.ulog[k].line = InfoLine

LogCallsAfterCommit(calls) ==
    \A k \in DOMAIN calls :
        calls[k].fn \in {"pax_log_internal_imgp", "pax_ulog_internal"}
            => \E j \in 1..(k - 1) : calls[j].fn = "pax_set_flags"

C19_InfoLineIffCommitNonDefault ==
    phase = "returned" =>
        /\ InfoLogged(elf) <=> (SetFlagsCalls(elf.calls) = 1 /\ RequestedMode # 0)
        /\ InfoLogged(elf) => (Len(elf.klog) = 1 /\ elf.ulog = << >>)
        /\ (elf.ret = 0 /\ RequestedMode = 0)
              => (elf.klog = << >> /\ elf.ulog = << >>)
        /\ elf.ret # 0
              => (~InfoLogged(elf) /\ Len(elf.klog) = 1 /\ Len(elf.ulog) = 1)
        /\ elf.ret = 0 => LogCallsAfterCommit(elf.calls)

(* A commit of a non-zero requested mode whose committed mask is zero: the *)
(* line is about the request, not about the mask.                          *)
C19_Witness ==
    /\ phase = "returned" /\ SetFlagsCalls(elf.calls) = 1
    /\ RequestedMode # 0 /\ p_pax = 0
    /\ InfoLogged(elf)
    /\ elf.calls[Len(elf.calls)].fn = "pax_log_internal_imgp"

(***************************************************************************)
(* C20.  The assertion at the label out of pax_init_prison is reached on   *)
(* every path.  For the root prison (pr == &prison0) pax_init_prison never *)
(* reaches its return with ret false: a failing initializer makes the      *)
(* assertion fail instead.  For every other prison the assertion never     *)
(* fails and a failing initializer makes pax_init_prison return false.     *)
(***************************************************************************)
SomeInitializerFailed ==
    \E k \in DOMAIN prison.calls : ResultOf(prison.calls[k]) # 0

C20_RootFailureIsAssertion ==
    prison.op = "pax_init_prison" =>
        /\ prison.returned <=> prison.assert_ok
        /\ prison.is_root =>
              /\ prison.returned => prison.ret = TRUE
              /\ SomeInitializerFailed <=> ~prison.assert_ok
        /\ ~prison.is_root =>
              /\ prison.assert_ok
              /\ SomeInitializerFailed <=> (prison.returned /\ prison.ret = FALSE)

(* The root prison, the last initializer the one that fails: all were *)
(* called, the assertion fails, nothing is returned.                  *)
C20_Witness ==
    /\ prison.op = "pax_init_prison" /\ prison.is_root
    /\ Len(prison.calls) = Len(ClaimedOrder(prison.compat32))
    /\ SomeInitializerFailed
    /\ ~prison.assert_ok /\ ~prison.returned

============================================================================
